---- MODULE Spec2Model ----
(***************************************************************************)
(* code/dpp/models/log_norm_mix.py                                         *)
(*                                                                         *)
(* LogNormalMixtureDistribution (constructor, mean, __getitem__) and the   *)
(* parameter head LogNormMix.get_inter_time_dist.                          *)
(*                                                                         *)
(* Representation of values.                                               *)
(*  - A tensor is [shape |-> <<d1,...,dn>>, data |-> f] where f maps every *)
(*    0-based coordinate tuple of the shape to the element.                *)
(*  - Raw parameters (outputs of the linear layer, locs, log_scales,       *)
(*    log_weights, the two scalars) are integers.                          *)
(*  - exp is not computable on the integers, so x.exp() is the formal      *)
(*    value [k |-> "exp", v |-> x] ("e to the x"); a plain number is       *)
(*    [k |-> "num", v |-> x].                                              *)
(*  - A categorical logit is kept as the probability it is the log of, a   *)
(*    reduced fraction <<num, den>>; logs are taken in base 2 so that an   *)
(*    integer log-weight l is the fraction 2^l.  Normalisation             *)
(*    (x - logsumexp(x)) is then exact rational arithmetic.                *)
(***************************************************************************)
EXTENDS Integers, Sequences, FiniteSets, TLC

VARIABLES
    root,     \* the distribution built by the last constructor call
    built,    \* the call that built root, with its arguments
    dist,     \* the current distribution: root, or a slice of a slice ... of root
    pos,      \* for each batch position of dist, the batch position of root it is
    sliced_mean,  \* old.mean[index], for the last dist = old[index] that returned
    tlists,   \* heap of Python lists of transforms; objects hold a reference
    last      \* the last call made and what it returned or raised

vars == <<root, built, dist, pos, sliced_mean, tlists, last>>

(***************************************************************************)
(* Bounds of the model                                                     *)
(***************************************************************************)
MaxIndexLen == 3   \* explicit index terms in one __getitem__ call
MaxK == 2          \* num_mix_components ranges over 1..MaxK

(***************************************************************************)
(* Program constants                                                       *)
(***************************************************************************)
ClampMin == -5
ClampMax == 3

(***************************************************************************)
(* Small arithmetic helpers                                                *)
(***************************************************************************)
Max2(a, b) == IF a >= b THEN a ELSE b
Min2(a, b) == IF a <= b THEN a ELSE b

RECURSIVE Pow2(_)
Pow2(n) == IF n <= 0 THEN 1 ELSE 2 * Pow2(n - 1)

RECURSIVE Gcd(_, _)
Gcd(a, b) == IF b = 0 THEN a ELSE Gcd(b, a % b)

Lcm(a, b) == (a \div Gcd(a, b)) * b

RECURSIVE SeqMax(_)
SeqMax(s) == IF Len(s) = 0 THEN 0 ELSE Max2(Head(s), SeqMax(Tail(s)))

(***************************************************************************)
(* Tensors                                                                 *)
(***************************************************************************)
Coords(shape) ==
    {c \in [1..Len(shape) -> 0..(SeqMax(shape) - 1)] :
        \A a \in 1..Len(shape) : c[a] < shape[a]}

\* t.shape[:-1]
BatchShape(t) == SubSeq(t.shape, 1, Len(t.shape) - 1)

\* the entries along the last axis at batch position q, in order
Row(t, q) == [k \in 1..t.shape[Len(t.shape)] |-> t.data[q \o <<k - 1>>]]

(***************************************************************************)
(* Basic indexing of a tensor, t[index], for an index made of integers,    *)
(* slices and Ellipsis (SLICE_IDX_T).  An optional slice bound is <<>>     *)
(* for None and <<b>> for the bound b.                                     *)
(***************************************************************************)
IntTerm(i) == [t |-> "int", i |-> i, start |-> <<>>, stop |-> <<>>]
SliceTerm(start, stop) == [t |-> "slice", i |-> 0, start |-> start, stop |-> stop]
EllipsisTerm == [t |-> "ellipsis", i |-> 0, start |-> <<>>, stop |-> <<>>]

\* slice(None)
FullSlice == SliceTerm(<<>>, <<>>)

EllipsisAt(terms) == {j \in DOMAIN terms : terms[j].t = "ellipsis"}

\* the index with Ellipsis (or the missing trailing axes) filled by full slices
ExpandIndex(terms, rank) ==
    LET explicit == Len(terms) - Cardinality(EllipsisAt(terms))
        fill == [j \in 1..(rank - explicit) |-> FullSlice]
    IN IF EllipsisAt(terms) = {}
       THEN terms \o fill
       ELSE LET e == CHOOSE j \in EllipsisAt(terms) : TRUE
            IN SubSeq(terms, 1, e - 1) \o fill \o SubSeq(terms, e + 1, Len(terms))

\* a slice bound brought into 0..dim as slice.indices does
SliceBound(b, dim) == IF b < 0 THEN Max2(b + dim, 0) ELSE Min2(b, dim)

\* the coordinates one term selects on an axis of size dim
AxisSelect(term, dim) ==
    IF term.t = "int"
    THEN <<IF term.i < 0 THEN term.i + dim ELSE term.i>>
    ELSE LET lo == IF term.start = <<>> THEN 0 ELSE SliceBound(term.start[1], dim)
             hi == IF term.stop = <<>> THEN dim ELSE SliceBound(term.stop[1], dim)
         IN [j \in 1..(hi - lo) |-> lo + j - 1]

\* the error indexing raises, "" when it raises none
IndexError(shape, terms) ==
    LET explicit == Len(terms) - Cardinality(EllipsisAt(terms))
    IN IF Cardinality(EllipsisAt(terms)) > 1 THEN "IndexError: single ellipsis"
       ELSE IF explicit > Len(shape) THEN "IndexError: too many indices"
       ELSE LET full == ExpandIndex(terms, Len(shape))
            IN IF \E a \in 1..Len(shape) :
                      /\ full[a].t = "int"
                      /\ (full[a].i >= shape[a] \/ full[a].i < -shape[a])
               THEN "IndexError: out of range"
               ELSE ""

\* t[terms], defined when IndexError(t.shape, terms) = ""
TensorIndex(t, terms) ==
    LET rank == Len(t.shape)
        full == ExpandIndex(terms, rank)
        sel == [a \in 1..rank |-> AxisSelect(full[a], t.shape[a])]
        kept == SelectSeq([a \in 1..rank |-> a], LAMBDA a : full[a].t = "slice")
        keptIndex(a) == Cardinality({b \in 1..a : full[b].t = "slice"})
        newShape == [j \in 1..Len(kept) |-> Len(sel[kept[j]])]
    IN [shape |-> newShape,
        data |-> [q \in Coords(newShape) |->
                    t.data[[a \in 1..rank |->
                              IF full[a].t = "int" THEN sel[a][1]
                              ELSE sel[a][q[keptIndex(a)] + 1]]]]]

(***************************************************************************)
(* Numbers                                                                 *)
(***************************************************************************)
Num(x) == [k |-> "num", v |-> x]

\* x.exp(), kept formal: e to the x
ExpOf(x) == [k |-> "exp", v |-> x]

\* (e^c)^2 = e^(2c)
Square(s) == [k |-> "exp", v |-> 2 * s.v]

\* the fraction n/d in lowest terms
Frac(n, d) == <<n \div Gcd(n, d), d \div Gcd(n, d)>>

\* the probability whose (base 2) log is the integer l
FromLog2(l) == IF l >= 0 THEN <<Pow2(l), 1>> ELSE <<1, Pow2(-l)>>

RECURSIVE DenLcm(_)
DenLcm(row) == IF Len(row) = 0 THEN 1 ELSE Lcm(Head(row)[2], DenLcm(Tail(row)))

RECURSIVE NumSum(_, _)
NumSum(row, den) ==
    IF Len(row) = 0 THEN 0
    ELSE Head(row)[1] * (den \div Head(row)[2]) + NumSum(Tail(row), den)

\* x - x.logsumexp(): each probability divided by the sum of the row
LogSoftmaxRow(row) ==
    LET den == DenLcm(row)
        total == NumSum(row, den)
    IN [k \in 1..Len(row) |-> Frac(row[k][1] * (den \div row[k][2]), total)]

\* torch.log_softmax(t, dim=-1)
LogSoftmax(t) ==
    [shape |-> t.shape,
     data |-> [c \in DOMAIN t.data |->
                 IF Len(c) = 0 THEN LogSoftmaxRow(<<t.data[c]>>)[1]
                 ELSE LogSoftmaxRow(Row(t, SubSeq(c, 1, Len(c) - 1)))[c[Len(c)] + 1]]]

\* integer log-weights read as logits
AsLogits(t) == [shape |-> t.shape, data |-> [c \in DOMAIN t.data |-> FromLog2(t.data[c])]]

\* t.exp()
TExp(t) == [shape |-> t.shape, data |-> [c \in DOMAIN t.data |-> ExpOf(t.data[c])]]

\* dpp.utils.clamp_preserve_gradients: the forward value is the clamped one
clamp_preserve_gradients(t, lo, hi) ==
    [shape |-> t.shape, data |-> [c \in DOMAIN t.data |-> Max2(lo, Min2(t.data[c], hi))]]

(***************************************************************************)
(* Distributions and transforms                                            *)
(***************************************************************************)
\* D.Categorical(logits=...) stores the normalised logits
Categorical(logits) == [logits |-> LogSoftmax(logits)]

Normal(loc, scale) == [loc |-> loc, scale |-> scale]

MixtureSameFamily(mixture_dist, component_dist) ==
    [mixture_distribution |-> mixture_dist, component_distribution |-> component_dist]

\* component_distribution.variance
Variance(component_dist) ==
    [shape |-> component_dist.scale.shape,
     data |-> [c \in DOMAIN component_dist.scale.data |-> Square(component_dist.scale.data[c])]]

AffineTransform(loc, scale) == [type |-> "Affine", loc |-> loc, scale |-> scale]
ExpTransform == [type |-> "Exp", loc |-> 0, scale |-> 1]

\* direct_args of the constructor
NoDirectArgs == [none |-> TRUE, base_dist |-> <<>>, transforms |-> 0]
DirectArgs(base_dist, transforms) ==
    [none |-> FALSE, base_dist |-> base_dist, transforms |-> transforms]

(***************************************************************************)
(* LogNormalMixtureDistribution.__init__                                   *)
(***************************************************************************)
\* Bug variants of BuildTransforms: "or" for "and" in the test for the
\* identity; the exponential appended in the identity branch only.
BuildTransforms_or(mean_log_inter_time, std_log_inter_time) ==
    LET transforms == IF mean_log_inter_time = 0 \/ std_log_inter_time = 1
                      THEN <<>>
                      ELSE <<AffineTransform(mean_log_inter_time, std_log_inter_time)>>
    IN Append(transforms, ExpTransform)

BuildTransforms_noExp(mean_log_inter_time, std_log_inter_time) ==
    IF mean_log_inter_time = 0 /\ std_log_inter_time = 1
    THEN <<ExpTransform>>
    ELSE <<AffineTransform(mean_log_inter_time, std_log_inter_time)>>

\* lines 47-51: the list built from the two scalars
BuildTransforms(mean_log_inter_time, std_log_inter_time) ==
    LET transforms == IF mean_log_inter_time = 0 /\ std_log_inter_time = 1
                      THEN <<>>
                      ELSE <<AffineTransform(mean_log_inter_time, std_log_inter_time)>>
    IN Append(transforms, ExpTransform)

\* lines 44-46: the Gaussian mixture built from the raw parameters
BuildGMM(locs, log_scales, log_weights) ==
    LET mixture_dist == Categorical(log_weights)
        component_dist == Normal(locs, TExp(log_scales))
    IN MixtureSameFamily(mixture_dist, component_dist)

\* Bug variant of InitTransforms: the exponential is appended in both modes,
\* so in direct mode to the caller's list.
InitTransforms_appendAlways(tl, mean_log_inter_time, std_log_inter_time, direct_args) ==
    IF direct_args.none
    THEN [tlists |-> Append(tl, BuildTransforms(mean_log_inter_time, std_log_inter_time)),
          ref |-> Len(tl) + 1]
    ELSE [tlists |-> [tl EXCEPT ![direct_args.transforms] = Append(@, ExpTransform)],
          ref |-> direct_args.transforms]

\* The list of transforms the new object refers to, and the list heap after
\* the call: a new list when built from raw parameters, the caller's list
\* itself (not a copy) when direct_args is given.
InitTransforms(tl, mean_log_inter_time, std_log_inter_time, direct_args) ==
    IF direct_args.none
    THEN [tlists |-> Append(tl, BuildTransforms(mean_log_inter_time, std_log_inter_time)),
          ref |-> Len(tl) + 1]
    ELSE [tlists |-> tl, ref |-> direct_args.transforms]

\* The constructor: the new object and the list heap after the call.
LNMD_init(tl, locs, log_scales, log_weights, mean_log_inter_time, std_log_inter_time, direct_args) ==
    LET tr == InitTransforms(tl, mean_log_inter_time, std_log_inter_time, direct_args)
        base == IF direct_args.none
                THEN BuildGMM(locs, log_scales, log_weights)
                ELSE direct_args.base_dist
    IN [obj |-> [mean_log_inter_time |-> mean_log_inter_time,
                 std_log_inter_time |-> std_log_inter_time,
                 base_dist |-> base,
                 transforms |-> tr.ref],
        tlists |-> tr.tlists]

(***************************************************************************)
(* LogNormalMixtureDistribution.mean                                       *)
(*                                                                         *)
(* (log_weights + a*loc + b + 0.5*a**2*variance).logsumexp(-1).exp()       *)
(* The result at a batch position is the sum over the components of        *)
(* w * e^(lin + half*a2*var); it is kept as the sequence of its terms.     *)
(***************************************************************************)
mean(self) ==
    LET a == self.std_log_inter_time
        b == self.mean_log_inter_time
        loc == self.base_dist.component_distribution.loc
        variance == Variance(self.base_dist.component_distribution)
        log_weights == self.base_dist.mixture_distribution.logits
        term(c) == [w |-> log_weights.data[c],
                    lin |-> a * loc.data[c] + b,
                    a2 |-> a * a,
                    var |-> variance.data[c]]
        summand == [shape |-> log_weights.shape,
                    data |-> [c \in DOMAIN log_weights.data |-> term(c)]]
    IN [shape |-> BatchShape(summand),
        data |-> [q \in Coords(BatchShape(summand)) |-> Row(summand, q)]]

(***************************************************************************)
(* LogNormalMixtureDistribution.__getitem__                                *)
(*                                                                         *)
(* An index is [tuple |-> TRUE, terms |-> <<t1,...,tm>>] or, for a single  *)
(* term that is not a tuple, [tuple |-> FALSE, terms |-> <<t>>].           *)
(***************************************************************************)
TupleIndex(terms) == [tuple |-> TRUE, terms |-> terms]
SingleIndex(term) == [tuple |-> FALSE, terms |-> <<term>>]

\* line 75: if not isinstance(index, tuple): index = (index,)
AsTuple(index) == IF index.tuple THEN index.terms ELSE <<index.terms[1]>>

\* Bug variant of WithMixtureAxis: the full slice is not appended.
WithMixtureAxis_dropped(terms) == terms

\* line 77: index = index + (slice(None),)
WithMixtureAxis(terms) == Append(terms, FullSlice)

\* Bug variant of SliceGuard: "<" for "<=".
SliceGuard_strict(terms, curr_shape) == Len(terms) < Len(curr_shape)

\* line 86: assert len(index) <= len(curr_shape)
SliceGuard(terms, curr_shape) == Len(terms) <= Len(curr_shape)

\* Bug variants of GetItemScalars: the two scalars swapped; the scalars not
\* handed on, so that the constructor's defaults apply.
GetItemScalars_swapped(self) ==
    [mean_log_inter_time |-> self.std_log_inter_time,
     std_log_inter_time |-> self.mean_log_inter_time]

GetItemScalars_defaults(self) ==
    [mean_log_inter_time |-> 0, std_log_inter_time |-> 1]

\* lines 100-103: the scalars handed to the new object
GetItemScalars(self) ==
    [mean_log_inter_time |-> self.mean_log_inter_time,
     std_log_inter_time |-> self.std_log_inter_time]

\* lines 88-99: the sliced mixture
SlicedGMM(base_dist, terms) ==
    LET sliced_logits == TensorIndex(base_dist.mixture_distribution.logits, terms)
        sliced_mixture_dist == Categorical(sliced_logits)
        component_dist == base_dist.component_distribution
        sliced_component_dist == Normal(TensorIndex(component_dist.loc, terms),
                                        TensorIndex(component_dist.scale, terms))
    IN MixtureSameFamily(sliced_mixture_dist, sliced_component_dist)

\* What the call does: the error it raises ("" for none) and, when it raises
\* none, the new object and the list heap after the call.
getitem(tl, self, index) ==
    LET terms == WithMixtureAxis(AsTuple(index))
        transforms == self.transforms
        base_dist == self.base_dist
        curr_shape == base_dist.mixture_distribution.logits.shape
        error == IF ~SliceGuard(terms, curr_shape)
                 THEN "AssertionError: Can't slice out the mixture axis!"
                 ELSE IndexError(curr_shape, terms)
        scalars == GetItemScalars(self)
    IN IF error # ""
       THEN [error |-> error, obj |-> <<>>, tlists |-> tl]
       ELSE LET new == LNMD_init(tl, <<>>, <<>>, <<>>,
                                 scalars.mean_log_inter_time,
                                 scalars.std_log_inter_time,
                                 DirectArgs(SlicedGMM(base_dist, terms), transforms))
            IN [error |-> "", obj |-> new.obj, tlists |-> new.tlists]

(***************************************************************************)
(* LogNormMix.get_inter_time_dist                                          *)
(***************************************************************************)
\* lines 159-161: the three slices of raw_params along the last axis
SplitLocs(raw_params, K) == TensorIndex(raw_params, <<EllipsisTerm, SliceTerm(<<>>, <<K>>)>>)
SplitLogScales_wrongSlice(raw_params, K) ==
    TensorIndex(raw_params, <<EllipsisTerm, SliceTerm(<<2 * K>>, <<3 * K>>)>>)
SplitLogScales(raw_params, K) ==
    TensorIndex(raw_params, <<EllipsisTerm, SliceTerm(<<K>>, <<2 * K>>)>>)
SplitLogWeights(raw_params, K) ==
    TensorIndex(raw_params, <<EllipsisTerm, SliceTerm(<<2 * K>>, <<>>)>>)

\* Bug variant of HeadLogScales: no clamp.
HeadLogScales_noClamp(log_scales) == log_scales

\* line 163
HeadLogScales(log_scales) == clamp_preserve_gradients(log_scales, ClampMin, ClampMax)

\* The distribution built from the output raw_params of self.linear, and
\* the list heap after the call.
get_inter_time_dist(tl, self, raw_params) ==
    LET locs == SplitLocs(raw_params, self.num_mix_components)
        log_scales == HeadLogScales(SplitLogScales(raw_params, self.num_mix_components))
        log_weights == LogSoftmax(AsLogits(SplitLogWeights(raw_params,
                                                           self.num_mix_components)))
    IN LNMD_init(tl, locs, log_scales, log_weights,
                 self.mean_log_inter_time, self.std_log_inter_time, NoDirectArgs)

\* LogNormMix.__init__: the fields get_inter_time_dist reads
LogNormMix_init(mean_log_inter_time, std_log_inter_time, num_mix_components) ==
    [mean_log_inter_time |-> mean_log_inter_time,
     std_log_inter_time |-> std_log_inter_time,
     num_mix_components |-> num_mix_components,
     linear_out |-> 3 * num_mix_components]

(***************************************************************************)
(* TransformedDistribution.sample and log_prob (dpp.distributions)         *)
(***************************************************************************)
\* one transform applied forward to a value
Forward(tr, x) ==
    IF tr.type = "Affine"
    THEN IF x.k = "num" THEN Num(tr.loc + tr.scale * x.v) ELSE [k |-> "affine", v |-> 0]
    ELSE IF x.k = "num" THEN ExpOf(x.v) ELSE [k |-> "expexp", v |-> 0]

RECURSIVE ForwardAll(_, _)
ForwardAll(transforms, x) ==
    IF Len(transforms) = 0 THEN x
    ELSE ForwardAll(Tail(transforms), Forward(Head(transforms), x))

\* a value known to be > 0: a positive number or an exponential
Positive(x) == IF x.k = "num" THEN x.v > 0 ELSE x.k \in {"exp", "expexp"}

\* sample(): a draw x of the base mixture at every batch position (any real
\* number can be drawn), pushed through the transforms in list order
sample(self, tl, draw) ==
    LET shape == BatchShape(self.base_dist.mixture_distribution.logits)
    IN [shape |-> shape,
        data |-> [q \in Coords(shape) |-> ForwardAll(tl[self.transforms], Num(draw[q]))]]

\* Floating point values for log_prob: a number, or one of the classes
\* "finite", "-inf", "+inf", "nan".
Class(k) == [k |-> k, v |-> 0]

\* transform.inv(y)
Inverse(tr, y) ==
    IF tr.type = "Exp"
    THEN IF y.k = "num"
         THEN (IF y.v > 0 THEN Class("finite") ELSE IF y.v = 0 THEN Class("-inf")
               ELSE Class("nan"))
         ELSE IF y.k = "-inf" THEN Class("nan") ELSE y
    ELSE IF y.k = "num" THEN Class("finite")
         ELSE IF tr.scale < 0 /\ y.k = "-inf" THEN Class("+inf")
         ELSE IF tr.scale < 0 /\ y.k = "+inf" THEN Class("-inf")
         ELSE y

\* transform.log_abs_det_jacobian(x, y): x for exp, log|scale| for affine
LogAbsDetJacobian(tr, x) ==
    IF tr.type = "Exp" THEN (IF x.k = "num" THEN Class("finite") ELSE x)
    ELSE Class("finite")

Negate(a) == IF a.k = "-inf" THEN Class("+inf") ELSE IF a.k = "+inf" THEN Class("-inf") ELSE a

\* a + b in floating point
FAdd(a, b) ==
    IF a.k = "nan" \/ b.k = "nan" THEN Class("nan")
    ELSE IF a.k \in {"-inf", "+inf"}
         THEN (IF b.k \in {"-inf", "+inf"} /\ b.k # a.k THEN Class("nan") ELSE a)
    ELSE IF b.k \in {"-inf", "+inf"} THEN b
    ELSE Class("finite")

\* the Gaussian mixture's log density at x
BaseLogProb(x) ==
    IF x.k = "nan" THEN Class("nan")
    ELSE IF x.k \in {"-inf", "+inf"} THEN Class("-inf")
    ELSE Class("finite")

\* the transforms inverted last to first, the log-Jacobians subtracted, the
\* base log density added at the end
RECURSIVE LogProbFrom(_, _, _)
LogProbFrom(transforms, y, acc) ==
    IF Len(transforms) = 0 THEN FAdd(acc, BaseLogProb(y))
    ELSE LET tr == transforms[Len(transforms)]
             x == Inverse(tr, y)
         IN LogProbFrom(SubSeq(transforms, 1, Len(transforms) - 1), x,
                        FAdd(acc, Negate(LogAbsDetJacobian(tr, x))))

\* log_prob(z); with argument validation on, a value outside the support
\* (z <= 0 when the last transform is exp) is rejected first
log_prob(self, tl, z, validate_args) ==
    LET transforms == tl[self.transforms]
    IN IF /\ validate_args
          /\ Len(transforms) > 0
          /\ transforms[Len(transforms)].type = "Exp"
          /\ z <= 0
       THEN Class("ValueError")
       ELSE LogProbFrom(transforms, Num(z), Class("finite"))

(***************************************************************************)
(* Inputs                                                                  *)
(***************************************************************************)
\* raw parameter values; 5 and -7 lie outside [ClampMin, ClampMax]
RawValues == <<0, 5, -7, 1, -2>>

\* (batch_size, seq_len)
BatchShapes == {<<2, 2>>}

\* (mean_log_inter_time, std_log_inter_time)
ScalarPairs == {<<0, 1>>, <<2, 1>>, <<0, 3>>, <<2, 3>>}

BaseDraws == <<-3, 0, 2>>

Observations == {-1, 0, 2}

RECURSIVE FlatIndex(_, _)
FlatIndex(c, shape) ==
    IF Len(c) = 0 THEN 0
    ELSE c[Len(c)] + shape[Len(shape)] * FlatIndex(SubSeq(c, 1, Len(c) - 1),
                                                   SubSeq(shape, 1, Len(shape) - 1))

\* a tensor of raw values of the given shape
RawTensor(shape, seed) ==
    [shape |-> shape,
     data |-> [c \in Coords(shape) |->
                 RawValues[((seed + 3 * FlatIndex(c, shape)) % Len(RawValues)) + 1]]]

IndexTerms == {IntTerm(-1), FullSlice, SliceTerm(<<1>>, <<>>), EllipsisTerm}

Indices ==
    {SingleIndex(t) : t \in IndexTerms}
    \cup {TupleIndex(ts) : ts \in UNION {[1..n -> IndexTerms] : n \in 0..MaxIndexLen}}

\* the identity map on the batch positions of a distribution
IdentityPos(self) ==
    LET shape == BatchShape(self.base_dist.mixture_distribution.logits)
    IN [ok |-> TRUE, map |-> [shape |-> shape, data |-> [q \in Coords(shape) |-> q]]]

\* the positions of root behind the batch positions of self[index]
SlicePos(p, index) ==
    IF p.ok /\ IndexError(p.map.shape, AsTuple(index)) = ""
    THEN [ok |-> TRUE, map |-> TensorIndex(p.map, AsTuple(index))]
    ELSE [ok |-> FALSE, map |-> p.map]

\* self.mean[index], the mean taken before slicing
MeanThenIndex(self, index) ==
    IF IndexError(mean(self).shape, AsTuple(index)) = ""
    THEN [set |-> TRUE, ok |-> TRUE, value |-> TensorIndex(mean(self), AsTuple(index))]
    ELSE [set |-> TRUE, ok |-> FALSE, value |-> mean(self)]

NoSlicedMean == [set |-> FALSE, ok |-> FALSE, value |-> <<>>]

(***************************************************************************)
(* The state machine                                                       *)
(***************************************************************************)
NoObject == [none |-> TRUE]

Init ==
    /\ root = NoObject
    /\ built = [call |-> "none"]
    /\ dist = NoObject
    /\ pos = [ok |-> TRUE, map |-> [shape |-> <<>>, data |-> [q \in Coords(<<>>) |-> q]]]
    /\ sliced_mean = NoSlicedMean
    /\ tlists = <<>>
    /\ last = [op |-> "none"]

\* LogNormalMixtureDistribution(locs, log_scales, log_weights, mean, std)
Construct ==
    \E shape \in BatchShapes, K \in 1..MaxK, ms \in ScalarPairs :
        LET locs == RawTensor(shape \o <<K>>, 0)
            log_scales == RawTensor(shape \o <<K>>, 1)
            log_weights == RawTensor(shape \o <<K>>, 2)
            new == LNMD_init(tlists, locs, log_scales, AsLogits(log_weights),
                             ms[1], ms[2], NoDirectArgs)
        IN /\ built.call = "none"
           /\ root' = new.obj
           /\ dist' = new.obj
           /\ pos' = IdentityPos(new.obj)
           /\ sliced_mean' = NoSlicedMean
           /\ tlists' = new.tlists
           /\ built' = [call |-> "constructor", log_scales |-> log_scales]
           /\ last' = [op |-> "constructor"]

\* LogNormMix(mean, std, K).get_inter_time_dist(context), raw_params being
\* what self.linear makes of the context
GetInterTimeDist ==
    \E shape \in BatchShapes, K \in 1..MaxK, ms \in ScalarPairs :
        LET self == LogNormMix_init(ms[1], ms[2], K)
            raw_params == RawTensor(shape \o <<self.linear_out>>, 0)
            new == get_inter_time_dist(tlists, self, raw_params)
        IN /\ built.call = "none"
           /\ root' = new.obj
           /\ dist' = new.obj
           /\ pos' = IdentityPos(new.obj)
           /\ sliced_mean' = NoSlicedMean
           /\ tlists' = new.tlists
           /\ built' = [call |-> "get_inter_time_dist", self |-> self,
                        raw_params |-> raw_params]
           /\ last' = [op |-> "get_inter_time_dist"]

\* the defaults of the constructor's mean_log_inter_time and std_log_inter_time
DefaultScalars == <<0, 1>>

\* LogNormalMixtureDistribution(direct_args=(root.base_dist, root.transforms)):
\* a caller wraps the mixture and the transform list of the distribution it
\* has just built, leaving the two scalars at their defaults or passing on
\* those of the distribution
DirectConstruct ==
    /\ built.call \in {"constructor", "get_inter_time_dist"}
    /\ dist = root
    /\ \E ms \in {DefaultScalars, <<root.mean_log_inter_time, root.std_log_inter_time>>} :
          LET new == LNMD_init(tlists, <<>>, <<>>, <<>>, ms[1], ms[2],
                               DirectArgs(root.base_dist, root.transforms))
          IN /\ root' = new.obj
             /\ dist' = new.obj
             /\ pos' = IdentityPos(new.obj)
             /\ sliced_mean' = NoSlicedMean
             /\ tlists' = new.tlists
             /\ built' = [call |-> "direct", of |-> root]
             /\ last' = [op |-> "direct"]

\* dist = dist[index]
GetItem ==
    /\ built.call # "none"
    /\ \E index \in Indices :
        \E r \in {getitem(tlists, dist, index)} :
           IF r.error # ""
              THEN /\ last' = [op |-> "getitem", m |-> Len(AsTuple(index)), error |-> r.error]
                   /\ UNCHANGED <<root, built, dist, pos, sliced_mean, tlists>>
              ELSE /\ dist' = r.obj
                   /\ tlists' = r.tlists
                   /\ pos' = SlicePos(pos, index)
                   /\ sliced_mean' = MeanThenIndex(dist, index)
                   /\ last' = [op |-> "getitem", m |-> Len(AsTuple(index)), error |-> ""]
                   /\ UNCHANGED <<root, built>>

\* dist.sample()
Sample ==
    /\ built.call # "none"
    /\ LET shape == BatchShape(dist.base_dist.mixture_distribution.logits)
           draw == [q \in Coords(shape) |->
                      BaseDraws[(FlatIndex(q, shape) % Len(BaseDraws)) + 1]]
       IN last' = [op |-> "sample", value |-> sample(dist, tlists, draw)]
    /\ UNCHANGED <<root, built, dist, pos, sliced_mean, tlists>>

\* dist.log_prob(z)
LogProb ==
    /\ built.call # "none"
    /\ \E z \in Observations, validate_args \in BOOLEAN :
        /\ last' = [op |-> "log_prob", z |-> z,
                    value |-> log_prob(dist, tlists, z, validate_args)]
        /\ UNCHANGED <<root, built, dist, pos, sliced_mean, tlists>>

Next ==
    \/ Construct
    \/ GetInterTimeDist
    \/ DirectConstruct
    \/ GetItem
    \/ Sample
    \/ LogProb

Spec == Init /\ [][Next]_vars

(***************************************************************************)
(* Properties                                                              *)
(***************************************************************************)
AssertionMessage == "AssertionError: Can't slice out the mixture axis!"

\* the number of axes of the mixture logits of a distribution
Axes(self) == Len(self.base_dist.mixture_distribution.logits.shape)

\* root was built from raw parameters: by the constructor or by the head
FromRaw == built.call \in {"constructor", "get_inter_time_dist"}

\* dist is a proper slice of root: the last successful __getitem__ dropped
\* an axis or a position
Sliced ==
    /\ built.call # "none"
    /\ sliced_mean.set
    /\ dist.base_dist.mixture_distribution.logits.shape
         # root.base_dist.mixture_distribution.logits.shape

\* the transform list the two scalars of an object call for
ExpectedTransforms(self) ==
    IF self.mean_log_inter_time = 0 /\ self.std_log_inter_time = 1
    THEN <<ExpTransform>>
    ELSE <<AffineTransform(self.mean_log_inter_time, self.std_log_inter_time),
           ExpTransform>>

\* C1: a __getitem__ call with m explicit index terms on a distribution whose
\* logits have n axes raises the mixture-axis assertion exactly when
\* m > n - 1, and a call that raises it returns nothing and changes nothing.
C1_GuardExact ==
    [][last'.op = "getitem" =>
        /\ (last'.error = AssertionMessage) <=> (last'.m > Axes(dist) - 1)
        /\ last'.error = AssertionMessage =>
             /\ dist' = dist
             /\ root' = root
             /\ tlists' = tlists]_vars

\* C1 witness: a call with m = n terms on a sliced distribution was rejected.
C1_Witness ==
    /\ last.op = "getitem"
    /\ last.error = AssertionMessage
    /\ Sliced
    /\ last.m = Axes(dist)

\* C1 witness of the other direction is part of C2's: a call with m = n - 1
\* terms returned.

\* C2: after dist = old[index] returned, dist.mean equals old.mean[index]
\* elementwise (and old.mean[index] is defined).
C2_MeanCommutes ==
    sliced_mean.set =>
        /\ sliced_mean.ok
        /\ mean(dist) = sliced_mean.value

\* C2 witness: a slice with m = n - 1 terms of a distribution with an affine
\* transform returned a distribution over fewer positions.
C2_Witness ==
    /\ Sliced
    /\ last.op = "getitem"
    /\ last.error = ""
    /\ last.m = Axes(root) - 1
    /\ root.std_log_inter_time # 1
    /\ root.mean_log_inter_time # 0
    /\ DOMAIN mean(dist).data # {}

\* C3: after any sequence of successful slices of root, logits, loc and
\* scale of dist have one shape, whose last axis is root's component axis,
\* and at every batch position of dist each of them holds the components of
\* root at the position it was taken from, in root's order.
C3_ComponentAxisKept ==
    built.call # "none" =>
        LET new == dist.base_dist
            old == root.base_dist
            logits == new.mixture_distribution.logits
        IN /\ pos.ok
           /\ new.component_distribution.loc.shape = logits.shape
           /\ new.component_distribution.scale.shape = logits.shape
           /\ Len(logits.shape) >= 1
           /\ BatchShape(logits) = pos.map.shape
           /\ logits.shape[Len(logits.shape)] = old.mixture_distribution.logits.shape[Axes(root)]
           /\ \A q \in DOMAIN pos.map.data :
                /\ Row(logits, q) = Row(old.mixture_distribution.logits, pos.map.data[q])
                /\ Row(new.component_distribution.loc, q)
                     = Row(old.component_distribution.loc, pos.map.data[q])
                /\ Row(new.component_distribution.scale, q)
                     = Row(old.component_distribution.scale, pos.map.data[q])

\* C3 witness: two components, and a slice that kept one batch position
\* which is not the first one of root.
C3_Witness ==
    /\ Sliced
    /\ pos.ok
    /\ Axes(dist) = 1
    /\ dist.base_dist.mixture_distribution.logits.shape = <<2>>
    /\ pos.map.data[<<>>] = <<1, 1>>

\* C4: a distribution built from raw parameters has the transform list
\* [Exp] when the scalars are 0 and 1 and [Affine(mean, std), Exp] otherwise.
C4_TransformList ==
    FromRaw => tlists[root.transforms] = ExpectedTransforms(root)

\* C4 witness: built with only one of the two scalars off the identity.
C4_Witness ==
    /\ FromRaw
    /\ root.mean_log_inter_time = 0
    /\ root.std_log_inter_time = 3
    /\ Len(tlists[root.transforms]) = 2

ScaleInRange(x) == x.k = "exp" /\ ClampMin <= x.v /\ x.v <= ClampMax

AllScalesInRange(self) ==
    \A c \in DOMAIN self.base_dist.component_distribution.scale.data :
        ScaleInRange(self.base_dist.component_distribution.scale.data[c])

\* C6 (as claimed): every distribution built from raw parameters, by the head
\* or by the constructor, has all its scales in [e^ClampMin, e^ClampMax].
C6_AlwaysClamped == FromRaw => AllScalesInRange(root)

\* C6 (amended): every distribution built by get_inter_time_dist, and every
\* slice of it, has all its scales in [e^ClampMin, e^ClampMax].
C6_HeadClamped ==
    built.call = "get_inter_time_dist" => AllScalesInRange(root) /\ AllScalesInRange(dist)

\* C6 witness: the head was given a log-scale above and one below the range.
C6_Witness ==
    /\ built.call = "get_inter_time_dist"
    /\ LET K == built.self.num_mix_components
           outside(lo, hi) ==
               \E c \in DOMAIN built.raw_params.data :
                   /\ K <= c[Len(c)]
                   /\ c[Len(c)] < 2 * K
                   /\ built.raw_params.data[c] \in lo..hi
       IN outside(ClampMax + 1, ClampMax + 100) /\ outside(ClampMin - 100, ClampMin - 1)

\* C7: a __getitem__ that returns gives an object with the scalars of the
\* object sliced and a transform list of the same content, and leaves root
\* and the transform lists of root and of the object sliced as they were.
C7_SliceFrame ==
    [][(last'.op = "getitem" /\ last'.error = "") =>
        /\ dist'.mean_log_inter_time = dist.mean_log_inter_time
        /\ dist'.std_log_inter_time = dist.std_log_inter_time
        /\ tlists'[dist'.transforms] = tlists[dist.transforms]
        /\ tlists'[dist.transforms] = tlists[dist.transforms]
        /\ root' = root
        /\ tlists'[root.transforms] = tlists[root.transforms]]_vars

\* C7 witness: a slice of a distribution with an affine transform returned.
C7_Witness ==
    /\ Sliced
    /\ last.op = "getitem"
    /\ last.error = ""
    /\ Len(tlists[dist.transforms]) = 2
    /\ dist.mean_log_inter_time = 2

\* C8: every value sample() returns, for a distribution built from raw
\* parameters or any slice of it, is > 0, and the last transform of the list
\* is the exponential.
C8_SamplePositive ==
    (FromRaw /\ last.op = "sample") =>
        /\ Len(tlists[dist.transforms]) >= 1
        /\ tlists[dist.transforms][Len(tlists[dist.transforms])] = ExpTransform
        /\ \A q \in DOMAIN last.value.data : Positive(last.value.data[q])

\* C8 witness: a sample of a slice, with an affine transform in the list.
C8_Witness ==
    /\ FromRaw
    /\ Sliced
    /\ last.op = "sample"
    /\ DOMAIN last.value.data # {}
    /\ Len(tlists[dist.transforms]) = 2

\* C9: the distribution the head builds from raw_params (last axis 3K) has,
\* at every batch position q and component k < K, loc = raw[q, k] as it is,
\* scale = e^clamp(raw[q, K + k]), and logits the log-softmax of
\* raw[q, 2K..3K-1]; and it has the scalars of the model.
C9_HeadSplit ==
    built.call = "get_inter_time_dist" =>
        LET K == built.self.num_mix_components
            raw == built.raw_params
            gmm == root.base_dist
        IN /\ raw.shape[Len(raw.shape)] = 3 * K
           /\ gmm.component_distribution.loc.shape = BatchShape(raw) \o <<K>>
           /\ gmm.component_distribution.scale.shape = BatchShape(raw) \o <<K>>
           /\ gmm.mixture_distribution.logits.shape = BatchShape(raw) \o <<K>>
           /\ \A q \in Coords(BatchShape(raw)) :
                /\ \A k \in 0..(K - 1) :
                     /\ gmm.component_distribution.loc.data[q \o <<k>>] = raw.data[q \o <<k>>]
                     /\ gmm.component_distribution.scale.data[q \o <<k>>]
                          = ExpOf(Max2(ClampMin, Min2(raw.data[q \o <<K + k>>], ClampMax)))
                /\ Row(gmm.mixture_distribution.logits, q)
                     = LogSoftmaxRow([k \in 1..K |-> FromLog2(raw.data[q \o <<2 * K + k - 1>>])])
           /\ root.mean_log_inter_time = built.self.mean_log_inter_time
           /\ root.std_log_inter_time = built.self.std_log_inter_time

\* C9 witness: K = 2, and a location outside the clamp range is kept as it is.
C9_Witness ==
    /\ built.call = "get_inter_time_dist"
    /\ built.self.num_mix_components = 2
    /\ \E c \in DOMAIN root.base_dist.component_distribution.loc.data :
          root.base_dist.component_distribution.loc.data[c] > ClampMax

\* C10 (as claimed): in every instance, however built, the transform list is
\* the one the stored scalars call for.
C10_AllModes ==
    built.call # "none" => tlists[dist.transforms] = ExpectedTransforms(dist)

\* C10 (amended): in every instance built from raw parameters, and in every
\* slice of a slice ... of it, the transform list is the one the stored
\* scalars call for.
C10_RawAndSlices ==
    FromRaw => tlists[dist.transforms] = ExpectedTransforms(dist)

\* C10 witness: a slice of a distribution built with scalars 2 and 3.
C10_Witness ==
    /\ FromRaw
    /\ Sliced
    /\ dist.mean_log_inter_time = 2
    /\ dist.std_log_inter_time = 3

====
